---------------------------- MODULE Spec2Model ----------------------------
(***************************************************************************)
(* Model of libkineto's dynamic configuration loader                       *)
(* (libkineto/src/ConfigLoader.cpp): the SIGUSR2 bridge, the background    *)
(* thread updateConfigThread, the constructor, the destructor and the      *)
(* reader-facing flags; and of LibkinetoApi's client registration          *)
(* (libkineto/src/libkineto_api.cpp).                                      *)
(*                                                                         *)
(* Execution contexts: the scheduler thread "sched" (updateConfigThread),  *)
(* the host thread "main" (runs the destructor), and signal handler frames *)
(* that can be pushed on top of either thread at any instruction boundary  *)
(* (the bridge is installed with SA_NODEFER, so frames nest).              *)
(***************************************************************************)
EXTENDS Integers, Sequences, FiniteSets, TLC

VARIABLES
    \* ---- ConfigLoader members
    config_,                          \* base slot
    onDemandEventProfilerConfig_,     \* onDemandEvent slot
    onDemandActivityProfilerConfig_,  \* onDemandActivity slot
    daemonConfigLoader_,              \* TRUE iff a daemon client was constructed
    stopFlag_,                        \* std::atomic_bool
    onDemandSignal_,                  \* std::atomic_bool
    activityProfilerBusy_,            \* std::atomic_bool
    updateThreadMutex_,               \* owner thread, or "none"
    cvNotified,                       \* updateThreadCondVar_: the waiter has been notified
    \* ---- process-wide signal state
    sigHandler,                       \* the process's SIGUSR2 disposition
    originalUsr2Handler,              \* file-static saved handler
    hstack,                           \* per thread: stack of in-flight handle_signal frames
    hostKilled,                       \* SIGUSR2 hit the default disposition
    \* ---- updateConfigThread locals and position
    schedPc,
    now,
    next_config_load_time,
    next_on_demand_load_time,
    next_log_level_reset_time,
    onDemandConfig,
    odSource,                         \* branch taken by this iteration's arbitration
    daemonEvents,                     \* flags passed to readOnDemandConfig
    daemonActivities,
    daemonResp,                       \* text returned by the daemon query
    \* ---- destructor position
    dtorPc,
    \* ---- environment
    clock,                            \* wall clock, seconds
    configFile,                       \* text of the base config file
    onDemandFile,                     \* text of /tmp/libkineto.conf
    verboseLevel,                     \* logger's verbose level (SET_VERBOSE_LOG_LEVEL)
    delivered,                        \* number of external SIGUSR2 deliveries so far
    \* ---- construction
    ctorPc,                           \* position of ConfigLoader::ConfigLoader()
    factory,                          \* daemonConfigLoaderFactory(): "none", "null", "loader"
    \* ---- history
    config_str,                       \* text read by the latest updateBaseConfig (line 167)
    signalConfigs,                    \* number of configureFromSignal calls so far
    \* ---- LibkinetoApi (libkineto_api.cpp)
    client_,                          \* registered client, or "null"
    clientRegisterThread_,            \* thread recorded by registerClient, or "unset"
    activityProfiler_,                \* TRUE iff an activity profiler is attached
    apiPc,                            \* per calling thread: position in the API call
    initRuns                          \* <<client, thread>> for every client->init() so far

vars == << config_, onDemandEventProfilerConfig_, onDemandActivityProfilerConfig_,
           daemonConfigLoader_, stopFlag_, onDemandSignal_, activityProfilerBusy_,
           updateThreadMutex_, cvNotified, sigHandler, originalUsr2Handler, hstack,
           hostKilled, schedPc, now, next_config_load_time, next_on_demand_load_time,
           next_log_level_reset_time, onDemandConfig, odSource, daemonEvents,
           daemonActivities, daemonResp, dtorPc, clock, configFile, onDemandFile,
           verboseLevel, delivered, ctorPc, factory, config_str, signalConfigs,
           client_, clientRegisterThread_, activityProfiler_, apiPc, initRuns >>

-----------------------------------------------------------------------------
\* Program constants (seconds)
kConfigUpdateIntervalSecs == 300
kOnDemandConfigUpdateIntervalSecs == 5
kOnDemandConfigVerboseLogDurationSecs == 120

\* Bounds of the model
MaxSignals == 2      \* external SIGUSR2 deliveries
MaxDepth == 2        \* nested handler frames per thread

Threads == {"sched", "main"}

\* Host threads that call the LibkinetoApi; each registers a client of its
\* own, named after it.
Callers == {"A", "B"}

\* Instants at which the clock is observed.  Construction happens at 1 (0 is
\* the epoch of a default-constructed time_point); the others sit on and just
\* past the deadlines the scheduler computes.
Instants == {1, 6, 7, 127, 128, 302}

Min(a, b) == IF a <= b THEN a ELSE b

-----------------------------------------------------------------------------
\* Config texts: a sequence of <<key, value>> lines.
KnownKeys == {"VERBOSE_LOG_LEVEL", "SIGUSR2_ENABLED", "EVENTS_DURATION_SECS",
              "ACTIVITIES_DURATION_SECS"}

EmptyText == << >>
MalformedText == << <<"VERBOSE_LOG_LEVEL", 1>>, <<"???", 0>> >>
VerboseOffText == << <<"VERBOSE_LOG_LEVEL", 0>> >>
SigUsr2OffText == << <<"SIGUSR2_ENABLED", 0>> >>
VerboseEventsText == << <<"VERBOSE_LOG_LEVEL", 2>>, <<"EVENTS_DURATION_SECS", 60>> >>
EventsText == << <<"EVENTS_DURATION_SECS", 60>> >>
ActivitiesText == << <<"ACTIVITIES_DURATION_SECS", 1>> >>

BaseTexts == { EmptyText, VerboseOffText, SigUsr2OffText, MalformedText }
OnDemandTexts == { EmptyText, VerboseEventsText, MalformedText }
DaemonTexts == { EmptyText, EventsText, ActivitiesText }

HasKey(text, k) == \E i \in 1..Len(text) : text[i][1] = k

\* Config(): a default-constructed snapshot.
NewConfig ==
    [ source |-> EmptyText, timestamp |-> 0, parsed |-> "default",
      verboseLogLevel |-> -1, sigUsr2Enabled |-> TRUE,
      evStart |-> 0, evDuration |-> 0, actReceived |-> 0 ]

\* One option line applied to a snapshot at time t.
HandleOption(c, line, t) ==
    CASE line[1] = "VERBOSE_LOG_LEVEL"        -> [c EXCEPT !.verboseLogLevel = line[2]]
      [] line[1] = "SIGUSR2_ENABLED"          -> [c EXCEPT !.sigUsr2Enabled = (line[2] = 1)]
      [] line[1] = "EVENTS_DURATION_SECS"     -> [c EXCEPT !.evDuration = line[2], !.evStart = t]
      [] line[1] = "ACTIVITIES_DURATION_SECS" -> [c EXCEPT !.actReceived = t]

\* Config::parse(text): options are applied line by line on top of the values
\* the object already holds; a malformed line stops the parse and leaves the
\* object partially populated.
RECURSIVE ParseLines(_, _, _, _)
ParseLines(c, text, i, t) ==
    IF i > Len(text)
    THEN [c EXCEPT !.parsed = "ok", !.source = text, !.timestamp = t]
    ELSE IF text[i][1] \notin KnownKeys
         THEN [c EXCEPT !.parsed = "failed", !.timestamp = t]
         ELSE ParseLines(HandleOption(c, text[i], t), text, i + 1, t)

Parse(c, text, t) == ParseLines(c, text, 1, t)

eventProfilerOnDemandEndTime(c) == c.evStart + c.evDuration

updateActivityProfilerRequestReceivedTime(c, t) == [c EXCEPT !.actReceived = t]

\* ConfigLoader::eventProfilerRequest / activityProfilerRequest
eventProfilerRequest(c) ==
    c.evStart > onDemandEventProfilerConfig_.evStart
activityProfilerRequest(c) ==
    c.actReceived > onDemandActivityProfilerConfig_.actReceived


\* DaemonConfigLoader::readOnDemandConfig(events, activities): the texts a
\* daemon may answer with; it offers a kind of request only when told that
\* kind is requestable.
readOnDemandConfig(events, activities) ==
    { txt \in DaemonTexts :
        /\ HasKey(txt, "EVENTS_DURATION_SECS") => events
        /\ HasKey(txt, "ACTIVITIES_DURATION_SECS") => activities }

-----------------------------------------------------------------------------
\* Signal bridge helpers.  A handler value is "DFL" (a zeroed struct
\* sigaction, i.e. no handler), "F" (a foreign handler of the host) or
\* "bridge" (handle_signal).
Handlers == {"DFL", "F", "bridge"}

hasOriginalSignalHandler == originalUsr2Handler # "DFL"

\* setupSignalHandler, the sigaction call: <<new disposition, new saved handler>>
SetupSigaction(enableSigUsr2, cur, orig) ==
    IF enableSigUsr2 THEN << "bridge", cur >>
    ELSE IF orig # "DFL" THEN << orig, orig >>
    ELSE << cur, orig >>

\* setupSignalHandler, the assignment to originalUsr2Handler after the call
SetupNormalize(enableSigUsr2, orig) ==
    IF enableSigUsr2
    THEN (IF orig = "bridge" THEN "DFL" ELSE orig)
    ELSE "DFL"

Interval == Min(kConfigUpdateIntervalSecs, kOnDemandConfigUpdateIntervalSecs)

\* Instants of I at which a wait_for that began at the current clock can time
\* out; at the horizon of I the clock stays where it is.
TimeoutInstants(I) ==
    LET later == { p \in I : p >= clock + Interval }
        last  == CHOOSE m \in I : \A i \in I : i <= m
    IN  IF later = {} THEN {last} ELSE later

LaterInstants(I) == { p \in I : p >= clock }

\* Instants that also sit on and just past the second base-reload deadline.
ReloadInstants ==
    Instants \cup { 2 + 2 * kConfigUpdateIntervalSecs, 3 + 2 * kConfigUpdateIntervalSecs }

\* The instants that are not past the first base-reload deadline.
EarlyInstants == { p \in Instants : p <= 1 + kConfigUpdateIntervalSecs }

-----------------------------------------------------------------------------
\* Variable groups
slots  == << config_, onDemandEventProfilerConfig_, onDemandActivityProfilerConfig_ >>
flags  == << stopFlag_, onDemandSignal_, activityProfilerBusy_ >>
sync   == << updateThreadMutex_, cvNotified >>
sigs   == << sigHandler, originalUsr2Handler >>
frames == << hstack, hostKilled >>
timers == << now, next_config_load_time, next_on_demand_load_time,
             next_log_level_reset_time >>
dmn    == << daemonEvents, daemonActivities, daemonResp >>
files  == << configFile, onDemandFile, daemonConfigLoader_ >>
locals == << onDemandConfig, odSource >>
api == << client_, clientRegisterThread_, activityProfiler_, apiPc, initRuns >>
outside == << ctorPc, factory, api >>
history == << config_str, signalConfigs >>

\* A thread executes its own code only when no handler frame sits on it.
CanRun(t) == hstack[t] = << >> /\ ~hostKilled

-----------------------------------------------------------------------------
\* LibkinetoApi before any call: no client, no recorded thread.
InitApiWith(profilers) ==
    /\ client_ = "null"
    /\ clientRegisterThread_ = "unset"
    /\ activityProfiler_ \in profilers
    /\ apiPc = [t \in Callers |-> "idle"]
    /\ initRuns = {}

\* State after ConfigLoader::ConfigLoader() returned and updateConfigThread
\* initialised its locals.
InitLoader(baseTexts, onDemandTexts, preHandlers, daemons) ==
    /\ configFile \in baseTexts
    /\ onDemandFile \in onDemandTexts
    /\ daemonConfigLoader_ \in daemons
    /\ clock = 1
    /\ config_ = Parse(NewConfig, configFile, 1)
    /\ verboseLevel = config_.verboseLogLevel
    /\ \E pre \in preHandlers :
         LET s == SetupSigaction(config_.sigUsr2Enabled, pre, "DFL")
         IN  /\ sigHandler = s[1]
             /\ originalUsr2Handler = SetupNormalize(config_.sigUsr2Enabled, s[2])
    /\ onDemandEventProfilerConfig_ = NewConfig
    /\ onDemandActivityProfilerConfig_ = NewConfig
    /\ stopFlag_ = FALSE
    /\ onDemandSignal_ = FALSE
    /\ activityProfilerBusy_ = FALSE
    /\ updateThreadMutex_ = "none"
    /\ cvNotified = FALSE
    /\ hstack = [t \in Threads |-> << >>]
    /\ hostKilled = FALSE
    /\ schedPc = "lock"
    /\ now = 1
    /\ next_config_load_time = 1 + kConfigUpdateIntervalSecs
    /\ next_on_demand_load_time = 1 + kOnDemandConfigUpdateIntervalSecs
    /\ next_log_level_reset_time = 1
    /\ onDemandConfig = NewConfig
    /\ odSource = "none"
    /\ daemonEvents = FALSE
    /\ daemonActivities = FALSE
    /\ daemonResp = EmptyText
    /\ dtorPc = "idle"
    /\ delivered = 0
    /\ ctorPc = "done"
    /\ factory = IF daemonConfigLoader_ THEN "loader" ELSE "null"
    /\ config_str = configFile
    /\ signalConfigs = 0

InitWith(baseTexts, onDemandTexts, preHandlers, daemons) ==
    /\ InitLoader(baseTexts, onDemandTexts, preHandlers, daemons)
    /\ InitApiWith({FALSE})

Init == InitWith(BaseTexts, OnDemandTexts, {"DFL", "F"}, BOOLEAN)

-----------------------------------------------------------------------------
\* updateConfigThread, lines 235-239: the wait.

\* std::unique_lock<std::mutex> lock(updateThreadMutex_)
SchedLock ==
    /\ schedPc = "lock" /\ CanRun("sched")
    /\ updateThreadMutex_ = "none"
    /\ updateThreadMutex_' = "sched"
    /\ schedPc' = "locked"
    /\ UNCHANGED << outside, history, slots, flags, cvNotified, sigs, frames, timers, dmn, files,
                    locals, dtorPc, clock, verboseLevel, delivered >>

\* wait_for(lock, interval) begins: the mutex is released and the thread
\* becomes a waiter; notifications issued before this point are not seen.
SchedWait ==
    /\ schedPc = "locked" /\ CanRun("sched")
    /\ updateThreadMutex_' = "none"
    /\ cvNotified' = FALSE
    /\ schedPc' = "waiting"
    /\ UNCHANGED << outside, history, slots, flags, sigs, frames, timers, dmn, files, locals,
                    dtorPc, clock, verboseLevel, delivered >>

\* The waiter is woken by notify_one.
SchedWakeNotified(I) ==
    /\ schedPc = "waiting" /\ CanRun("sched")
    /\ cvNotified
    /\ cvNotified' = FALSE
    /\ clock' \in LaterInstants(I)
    /\ schedPc' = "reacquire"
    /\ UNCHANGED << outside, history, slots, flags, updateThreadMutex_, sigs, frames, timers, dmn,
                    files, locals, dtorPc, verboseLevel, delivered >>

\* The waiter wakes because the interval elapsed.
SchedWakeTimeout(I) ==
    /\ schedPc = "waiting" /\ CanRun("sched")
    /\ cvNotified' = FALSE
    /\ clock' \in TimeoutInstants(I)
    /\ schedPc' = "reacquire"
    /\ UNCHANGED << outside, history, slots, flags, updateThreadMutex_, sigs, frames, timers, dmn,
                    files, locals, dtorPc, verboseLevel, delivered >>

\* wait_for without a predicate may also return spuriously.
SchedWakeSpurious(I) ==
    /\ schedPc = "waiting" /\ CanRun("sched")
    /\ ~cvNotified
    /\ clock' \in LaterInstants(I)
    /\ schedPc' = "reacquire"
    /\ UNCHANGED << outside, history, slots, flags, sync, sigs, frames, timers, dmn,
                    files, locals, dtorPc, verboseLevel, delivered >>

\* wait_for re-acquires the mutex before it returns.
SchedReacquire ==
    /\ schedPc = "reacquire" /\ CanRun("sched")
    /\ updateThreadMutex_ = "none"
    /\ updateThreadMutex_' = "sched"
    /\ schedPc' = "unlock"
    /\ UNCHANGED << outside, history, slots, flags, cvNotified, sigs, frames, timers, dmn, files,
                    locals, dtorPc, clock, verboseLevel, delivered >>

\* end of the block at line 239: ~unique_lock
SchedUnlock ==
    /\ schedPc = "unlock" /\ CanRun("sched")
    /\ updateThreadMutex_' = "none"
    /\ schedPc' = "check_stop"
    /\ UNCHANGED << outside, history, slots, flags, cvNotified, sigs, frames, timers, dmn, files,
                    locals, dtorPc, clock, verboseLevel, delivered >>

\* lines 240-243: if (stopFlag_) break; now = high_resolution_clock::now()
SchedStop ==
    /\ schedPc = "check_stop" /\ CanRun("sched")
    /\ stopFlag_
    /\ schedPc' = "done"
    /\ UNCHANGED << outside, history, slots, flags, sync, sigs, frames, timers, dmn, files,
                    locals, dtorPc, clock, verboseLevel, delivered >>

SchedReadClock ==
    /\ schedPc = "check_stop" /\ CanRun("sched")
    /\ ~stopFlag_
    /\ now' = clock
    /\ schedPc' = "base"
    /\ UNCHANGED << outside, history, slots, flags, sync, sigs, frames, next_config_load_time,
                    next_on_demand_load_time, next_log_level_reset_time, dmn, files,
                    locals, dtorPc, clock, verboseLevel, delivered >>

-----------------------------------------------------------------------------
\* lines 244-247 and updateBaseConfig (166-175)

\* updateBaseConfig up to the call of setupSignalHandler: the base slot is
\* destroyed and re-constructed in place, then parsed.
UpdateBaseConfigSlot ==
    IF configFile # config_.source
    THEN Parse(NewConfig, configFile, now)
    ELSE config_

\* Variant: the reload test is `now >= next_config_load_time`.
SchedUpdateBaseConfigAtDeadline ==
    /\ schedPc = "base" /\ CanRun("sched")
    /\ now >= next_config_load_time
    /\ config_str' = configFile
    /\ config_' = UpdateBaseConfigSlot
    /\ schedPc' = "setup_sigaction"
    /\ UNCHANGED << outside, signalConfigs, onDemandEventProfilerConfig_, onDemandActivityProfilerConfig_,
                    flags, sync, sigs, frames, timers, dmn, files, locals, dtorPc,
                    clock, verboseLevel, delivered >>

SchedUpdateBaseConfig ==
    /\ schedPc = "base" /\ CanRun("sched")
    /\ now > next_config_load_time
    /\ config_str' = configFile
    /\ config_' = UpdateBaseConfigSlot
    /\ schedPc' = "setup_sigaction"
    /\ UNCHANGED << outside, signalConfigs, onDemandEventProfilerConfig_, onDemandActivityProfilerConfig_,
                    flags, sync, sigs, frames, timers, dmn, files, locals, dtorPc,
                    clock, verboseLevel, delivered >>

SchedSkipBaseConfig ==
    /\ schedPc = "base" /\ CanRun("sched")
    /\ ~(now > next_config_load_time)
    /\ schedPc' = "ondemand"
    /\ UNCHANGED << outside, history, slots, flags, sync, sigs, frames, timers, dmn, files, locals,
                    dtorPc, clock, verboseLevel, delivered >>

\* setupSignalHandler(config_.sigUsr2Enabled()): the sigaction system call.
\* With the option off and no saved handler the function does nothing and
\* line 246 follows at once.
SchedSetupSigaction ==
    /\ schedPc = "setup_sigaction" /\ CanRun("sched")
    /\ LET s == SetupSigaction(config_.sigUsr2Enabled, sigHandler, originalUsr2Handler)
       IN  /\ sigHandler' = s[1]
           /\ originalUsr2Handler' = s[2]
    /\ IF config_.sigUsr2Enabled \/ hasOriginalSignalHandler
       THEN /\ schedPc' = "setup_normalize"
            /\ UNCHANGED next_config_load_time
       ELSE /\ schedPc' = "ondemand"
            /\ next_config_load_time' = now + kConfigUpdateIntervalSecs
    /\ UNCHANGED << outside, history, slots, flags, sync, frames, now, next_on_demand_load_time,
                    next_log_level_reset_time, dmn, files, locals, dtorPc,
                    clock, verboseLevel, delivered >>

\* setupSignalHandler: the store to originalUsr2Handler that follows, then
\* line 246
SchedSetupNormalize ==
    /\ schedPc = "setup_normalize" /\ CanRun("sched")
    /\ originalUsr2Handler' = SetupNormalize(config_.sigUsr2Enabled, originalUsr2Handler)
    /\ next_config_load_time' = now + kConfigUpdateIntervalSecs
    /\ schedPc' = "ondemand"
    /\ UNCHANGED << outside, history, slots, flags, sync, sigHandler, frames, now, next_on_demand_load_time,
                    next_log_level_reset_time, dmn, files, locals, dtorPc, clock,
                    verboseLevel, delivered >>

-----------------------------------------------------------------------------
\* lines 248-254: on-demand arbitration

\* onDemandSignal_.exchange(false) returned true: onDemandConfig = config_.clone()
\* and configureFromSignal(now, *onDemandConfig) (177-205).  setSignalDefaults
\* fills activity-trace options, none of which is part of a snapshot here.
SignalConfig == Parse(config_, onDemandFile, now)

\* Variant: the flag is tested with a plain load and never cleared.
SchedConfigureFromSignalNoClear ==
    /\ schedPc = "ondemand" /\ CanRun("sched")
    /\ onDemandSignal_
    /\ onDemandSignal_' = onDemandSignal_
    /\ LET c1 == SignalConfig
           c2 == updateActivityProfilerRequestReceivedTime(c1, now)
       IN  /\ onDemandEventProfilerConfig_' =
                 IF /\ eventProfilerRequest(c1)
                    /\ now > eventProfilerOnDemandEndTime(onDemandEventProfilerConfig_)
                 THEN c1
                 ELSE onDemandEventProfilerConfig_
           /\ onDemandActivityProfilerConfig_' =
                 IF ~activityProfilerBusy_ THEN c2 ELSE onDemandActivityProfilerConfig_
           /\ onDemandConfig' = c2
    /\ odSource' = "signal"
    /\ signalConfigs' = signalConfigs + 1
    /\ schedPc' = "verbose"
    /\ UNCHANGED << outside, config_str, config_, stopFlag_, activityProfilerBusy_, sync, sigs, frames,
                    timers, dmn, files, dtorPc, clock, verboseLevel, delivered >>

SchedConfigureFromSignal ==
    /\ schedPc = "ondemand" /\ CanRun("sched")
    /\ onDemandSignal_
    /\ onDemandSignal_' = FALSE
    /\ LET c1 == SignalConfig
           c2 == updateActivityProfilerRequestReceivedTime(c1, now)
       IN  /\ onDemandEventProfilerConfig_' =
                 IF /\ eventProfilerRequest(c1)
                    /\ now > eventProfilerOnDemandEndTime(onDemandEventProfilerConfig_)
                 THEN c1
                 ELSE onDemandEventProfilerConfig_
           /\ onDemandActivityProfilerConfig_' =
                 IF ~activityProfilerBusy_ THEN c2 ELSE onDemandActivityProfilerConfig_
           /\ onDemandConfig' = c2
    /\ odSource' = "signal"
    /\ signalConfigs' = signalConfigs + 1
    /\ schedPc' = "verbose"
    /\ UNCHANGED << outside, config_str, config_, stopFlag_, activityProfilerBusy_, sync, sigs, frames,
                    timers, dmn, files, dtorPc, clock, verboseLevel, delivered >>

\* exchange returned false and the poll deadline has passed:
\* configureFromDaemon, first readOnDemandConfigFromDaemon (106-115)
\* Variant: the poll is an independent `if`, not the `else` of the signal test.
SchedDaemonQueryAlways ==
    /\ schedPc = "ondemand" /\ CanRun("sched")
    /\ now > next_on_demand_load_time
    /\ IF daemonConfigLoader_
       THEN /\ daemonEvents' =
                  (now > eventProfilerOnDemandEndTime(onDemandEventProfilerConfig_))
            /\ daemonActivities' = ~activityProfilerBusy_
            /\ daemonResp' \in readOnDemandConfig(daemonEvents', daemonActivities')
       ELSE /\ daemonEvents' = FALSE
            /\ daemonActivities' = FALSE
            /\ daemonResp' = EmptyText
    /\ schedPc' = "daemon_accept"
    /\ UNCHANGED << outside, history, slots, flags, sync, sigs, frames, timers, files, locals, dtorPc,
                    clock, verboseLevel, delivered >>

SchedDaemonQuery ==
    /\ schedPc = "ondemand" /\ CanRun("sched")
    /\ ~onDemandSignal_
    /\ now > next_on_demand_load_time
    /\ IF daemonConfigLoader_
       THEN /\ daemonEvents' =
                  (now > eventProfilerOnDemandEndTime(onDemandEventProfilerConfig_))
            /\ daemonActivities' = ~activityProfilerBusy_
            /\ daemonResp' \in readOnDemandConfig(daemonEvents', daemonActivities')
       ELSE /\ daemonEvents' = FALSE
            /\ daemonActivities' = FALSE
            /\ daemonResp' = EmptyText
    /\ schedPc' = "daemon_accept"
    /\ UNCHANGED << outside, history, slots, flags, sync, sigs, frames, timers, files, locals, dtorPc,
                    clock, verboseLevel, delivered >>

\* configureFromDaemon, lines 213-221, then line 253
DaemonConfig == Parse(onDemandConfig, daemonResp, now)

SchedDaemonAccept ==
    /\ schedPc = "daemon_accept" /\ CanRun("sched")
    /\ LET c == DaemonConfig
       IN  /\ onDemandEventProfilerConfig_' =
                 IF eventProfilerRequest(c) THEN c ELSE onDemandEventProfilerConfig_
           /\ onDemandActivityProfilerConfig_' =
                 IF activityProfilerRequest(c) THEN c ELSE onDemandActivityProfilerConfig_
           /\ onDemandConfig' = c
    /\ next_on_demand_load_time' = now + kOnDemandConfigUpdateIntervalSecs
    /\ odSource' = "daemon"
    /\ schedPc' = "verbose"
    /\ UNCHANGED << outside, history, config_, flags, sync, sigs, frames, now, next_config_load_time,
                    next_log_level_reset_time, dmn, files, dtorPc, clock,
                    verboseLevel, delivered >>

\* neither branch of lines 248-254 is taken
SchedNoOnDemand ==
    /\ schedPc = "ondemand" /\ CanRun("sched")
    /\ ~onDemandSignal_
    /\ ~(now > next_on_demand_load_time)
    /\ odSource' = "none"
    /\ schedPc' = "verbose"
    /\ UNCHANGED << outside, history, slots, flags, sync, sigs, frames, timers, dmn, files,
                    onDemandConfig, dtorPc, clock, verboseLevel, delivered >>

\* lines 255-268: the verbose-level override and its expiry.  The iteration
\* ends here: what it kept of the arbitration goes out of scope.
SchedVerbose ==
    /\ schedPc = "verbose" /\ CanRun("sched")
    /\ LET armed == onDemandConfig.verboseLogLevel >= 0
           reset == IF armed THEN now + kOnDemandConfigVerboseLogDurationSecs
                             ELSE next_log_level_reset_time
       IN  /\ next_log_level_reset_time' = reset
           /\ verboseLevel' =
                 IF now > reset THEN config_.verboseLogLevel
                 ELSE IF armed THEN onDemandConfig.verboseLogLevel
                 ELSE verboseLevel
    /\ odSource' = "none"
    /\ daemonEvents' = FALSE
    /\ daemonActivities' = FALSE
    /\ daemonResp' = EmptyText
    /\ schedPc' = "lock"
    /\ UNCHANGED << outside, history, slots, flags, sync, sigs, frames, now, next_config_load_time,
                    next_on_demand_load_time, files, onDemandConfig, dtorPc, clock,
                    delivered >>

-----------------------------------------------------------------------------
\* handle_signal (43-54) and handleOnDemandSignal (158-164), one frame per
\* delivery: [pc, act], act being the local struct sigaction of line 48.

Top(t) == hstack[t][Len(hstack[t])]
InHandler(t, pc) == ~hostKilled /\ hstack[t] # << >> /\ Top(t).pc = pc
SetTop(t, f) == [hstack EXCEPT ![t] = [@ EXCEPT ![Len(@)] = f]]
Pop(t) == [hstack EXCEPT ![t] = SubSeq(@, 1, Len(@) - 1)]
Push(t, f) == [hstack EXCEPT ![t] = Append(@, f)]
NewFrame == [pc |-> "set_flag", act |-> "DFL"]

\* notify_one wakes the waiter if there is one, and is lost otherwise
NotifyOne == IF schedPc = "waiting" THEN TRUE ELSE cvNotified

\* onDemandSignal_ = true
HandlerSetFlag(t) ==
    /\ InHandler(t, "set_flag")
    /\ onDemandSignal_' = TRUE
    /\ hstack' = SetTop(t, [Top(t) EXCEPT !.pc = "lock"])
    /\ UNCHANGED << outside, history, slots, stopFlag_, activityProfilerBusy_, sync, sigs, hostKilled,
                    schedPc, timers, dmn, files, locals, dtorPc, clock, verboseLevel,
                    delivered >>

\* std::lock_guard<std::mutex> lock(updateThreadMutex_).  The mutex is not
\* recursive: when the interrupted thread (or a frame below) owns it, the
\* lock never returns.
HandlerLock(t) ==
    /\ InHandler(t, "lock")
    /\ updateThreadMutex_ = "none"
    /\ updateThreadMutex_' = t
    /\ hstack' = SetTop(t, [Top(t) EXCEPT !.pc = "notify"])
    /\ UNCHANGED << outside, history, slots, flags, cvNotified, sigs, hostKilled, schedPc, timers, dmn,
                    files, locals, dtorPc, clock, verboseLevel, delivered >>

\* updateThreadCondVar_.notify_one(); ~lock_guard
HandlerNotify(t) ==
    /\ InHandler(t, "notify")
    /\ cvNotified' = NotifyOne
    /\ updateThreadMutex_' = "none"
    /\ hstack' = SetTop(t, [Top(t) EXCEPT !.pc = "check_original"])
    /\ UNCHANGED << outside, history, slots, flags, sigs, hostKilled, schedPc, timers, dmn, files,
                    locals, dtorPc, clock, verboseLevel, delivered >>

\* if (hasOriginalSignalHandler()), else the handler returns
HandlerCheckOriginal(t) ==
    /\ InHandler(t, "check_original")
    /\ hstack' = IF hasOriginalSignalHandler
                 THEN SetTop(t, [Top(t) EXCEPT !.pc = "swap"])
                 ELSE Pop(t)
    /\ UNCHANGED << outside, history, slots, flags, sync, sigs, hostKilled, schedPc, timers, dmn, files,
                    locals, dtorPc, clock, verboseLevel, delivered >>

\* sigaction(SIGUSR2, &originalUsr2Handler, &act)
HandlerSwap(t) ==
    /\ InHandler(t, "swap")
    /\ hstack' = SetTop(t, [pc |-> "raise", act |-> sigHandler])
    /\ sigHandler' = originalUsr2Handler
    /\ UNCHANGED << outside, history, slots, flags, sync, originalUsr2Handler, hostKilled, schedPc, timers,
                    dmn, files, locals, dtorPc, clock, verboseLevel, delivered >>

\* raise(SIGUSR2): the installed handler runs on this thread before raise
\* returns.  The foreign handler's body is the host's; the bridge starts a
\* nested frame; the default disposition terminates the process.
HandlerRaiseForeign(t) ==
    /\ InHandler(t, "raise")
    /\ sigHandler = "F"
    /\ hstack' = SetTop(t, [Top(t) EXCEPT !.pc = "restore"])
    /\ UNCHANGED << outside, history, slots, flags, sync, sigs, hostKilled, schedPc, timers, dmn, files,
                    locals, dtorPc, clock, verboseLevel, delivered >>

HandlerRaiseBridge(t) ==
    /\ InHandler(t, "raise")
    /\ sigHandler = "bridge"
    /\ Len(hstack[t]) < MaxDepth
    /\ hstack' = [hstack EXCEPT ![t] =
                     Append([@ EXCEPT ![Len(@)] = [Top(t) EXCEPT !.pc = "restore"]],
                            NewFrame)]
    /\ UNCHANGED << outside, history, slots, flags, sync, sigs, hostKilled, schedPc, timers, dmn, files,
                    locals, dtorPc, clock, verboseLevel, delivered >>

HandlerRaiseDefault(t) ==
    /\ InHandler(t, "raise")
    /\ sigHandler = "DFL"
    /\ hostKilled' = TRUE
    /\ UNCHANGED << outside, history, slots, flags, sync, sigs, hstack, schedPc, timers, dmn, files,
                    locals, dtorPc, clock, verboseLevel, delivered >>

\* sigaction(SIGUSR2, &act, &originalUsr2Handler); the handler returns
HandlerRestore(t) ==
    /\ InHandler(t, "restore")
    /\ originalUsr2Handler' = sigHandler
    /\ sigHandler' = Top(t).act
    /\ hstack' = Pop(t)
    /\ UNCHANGED << outside, history, slots, flags, sync, hostKilled, schedPc, timers, dmn, files,
                    locals, dtorPc, clock, verboseLevel, delivered >>

-----------------------------------------------------------------------------
\* A SIGUSR2 sent to the process is delivered on any live thread.
Deliverable(t) ==
    /\ ~hostKilled
    /\ delivered < MaxSignals
    /\ Len(hstack[t]) < MaxDepth
    /\ t = "sched" => schedPc # "done"

DeliverBridge(t) ==
    /\ Deliverable(t)
    /\ sigHandler = "bridge"
    /\ hstack' = Push(t, NewFrame)
    /\ delivered' = delivered + 1
    /\ UNCHANGED << outside, history, slots, flags, sync, sigs, hostKilled, schedPc, timers, dmn, files,
                    locals, dtorPc, clock, verboseLevel >>

DeliverForeign(t) ==
    /\ Deliverable(t)
    /\ sigHandler = "F"
    /\ delivered' = delivered + 1
    /\ UNCHANGED << outside, history, slots, flags, sync, sigs, frames, schedPc, timers, dmn, files,
                    locals, dtorPc, clock, verboseLevel >>

DeliverDefault(t) ==
    /\ Deliverable(t)
    /\ sigHandler = "DFL"
    /\ hostKilled' = TRUE
    /\ delivered' = delivered + 1
    /\ UNCHANGED << outside, history, slots, flags, sync, sigs, hstack, schedPc, timers, dmn, files,
                    locals, dtorPc, clock, verboseLevel >>

-----------------------------------------------------------------------------
\* ConfigLoader::~ConfigLoader (146-156), on thread "main"
DtorSetStop ==
    /\ ctorPc = "done"
    /\ dtorPc = "idle" /\ CanRun("main")
    /\ stopFlag_' = TRUE
    /\ dtorPc' = "lock"
    /\ UNCHANGED << outside, history, slots, onDemandSignal_, activityProfilerBusy_, sync, sigs, frames,
                    schedPc, timers, dmn, files, locals, clock, verboseLevel, delivered >>

DtorLock ==
    /\ dtorPc = "lock" /\ CanRun("main")
    /\ updateThreadMutex_ = "none"
    /\ updateThreadMutex_' = "main"
    /\ dtorPc' = "notify"
    /\ UNCHANGED << outside, history, slots, flags, cvNotified, sigs, frames, schedPc, timers, dmn, files,
                    locals, clock, verboseLevel, delivered >>

DtorNotify ==
    /\ dtorPc = "notify" /\ CanRun("main")
    /\ cvNotified' = NotifyOne
    /\ updateThreadMutex_' = "none"
    /\ dtorPc' = "join"
    /\ UNCHANGED << outside, history, slots, flags, sigs, frames, schedPc, timers, dmn, files, locals,
                    clock, verboseLevel, delivered >>

DtorJoin ==
    /\ dtorPc = "join" /\ CanRun("main")
    /\ schedPc = "done"
    /\ dtorPc' = "done"
    /\ UNCHANGED << outside, history, slots, flags, sync, sigs, frames, schedPc, timers, dmn, files,
                    locals, clock, verboseLevel, delivered >>

-----------------------------------------------------------------------------
\* Host and operator

\* ConfigLoader::setActivityProfilerBusy (291-293)
SetActivityProfilerBusy(busy) ==
    /\ ~hostKilled
    /\ dtorPc = "idle"
    /\ activityProfilerBusy_ # busy
    /\ activityProfilerBusy_' = busy
    /\ UNCHANGED << outside, history, slots, stopFlag_, onDemandSignal_, sync, sigs, frames, schedPc,
                    timers, dmn, files, locals, dtorPc, clock, verboseLevel, delivered >>

\* The operator rewrites the base config file.  The scheduler reads each
\* file at most once per iteration, so it is enough to let the files change
\* while the scheduler waits.
EditConfigFile(text) ==
    /\ ~hostKilled
    /\ schedPc = "waiting"
    /\ configFile # text
    /\ configFile' = text
    /\ UNCHANGED << outside, history, slots, flags, sync, sigs, frames, schedPc, timers, dmn,
                    onDemandFile, daemonConfigLoader_, locals, dtorPc, clock,
                    verboseLevel, delivered >>

\* The operator rewrites the on-demand config file.
EditOnDemandFile(text) ==
    /\ ~hostKilled
    /\ schedPc = "waiting"
    /\ onDemandFile # text
    /\ onDemandFile' = text
    /\ UNCHANGED << outside, history, slots, flags, sync, sigs, frames, schedPc, timers, dmn,
                    configFile, daemonConfigLoader_, locals, dtorPc, clock,
                    verboseLevel, delivered >>

-----------------------------------------------------------------------------
\* ConfigLoader::ConfigLoader() (125-144), on thread "main", run by the first
\* call of ConfigLoader::instance().

\* State when the constructor body is entered: the members are initialised
\* by lines 126-131, the scheduler thread does not exist yet.
InitCtor ==
    /\ configFile \in {EmptyText, VerboseOffText}
    /\ onDemandFile = EmptyText
    /\ factory \in {"none", "null", "loader"}
    /\ daemonConfigLoader_ = FALSE
    /\ clock = 1
    /\ config_ = NewConfig
    /\ verboseLevel = -1
    /\ sigHandler \in {"DFL", "F"}
    /\ originalUsr2Handler = "DFL"
    /\ onDemandEventProfilerConfig_ = NewConfig
    /\ onDemandActivityProfilerConfig_ = NewConfig
    /\ stopFlag_ = FALSE
    /\ onDemandSignal_ = FALSE
    /\ activityProfilerBusy_ = FALSE
    /\ updateThreadMutex_ = "none"
    /\ cvNotified = FALSE
    /\ hstack = [t \in Threads |-> << >>]
    /\ hostKilled = FALSE
    /\ schedPc = "unstarted"
    /\ now = 0
    /\ next_config_load_time = 0
    /\ next_on_demand_load_time = 0
    /\ next_log_level_reset_time = 0
    /\ onDemandConfig = NewConfig
    /\ odSource = "none"
    /\ daemonEvents = FALSE
    /\ daemonActivities = FALSE
    /\ daemonResp = EmptyText
    /\ dtorPc = "idle"
    /\ delivered = 0
    /\ ctorPc = "parse"
    /\ config_str = configFile
    /\ signalConfigs = 0
    /\ InitApiWith({FALSE})

\* lines 136-137: config_.parse(readConfigFromConfigFile(configFileName_));
\* SET_VERBOSE_LOG_LEVEL
CtorParse ==
    /\ ctorPc = "parse"
    /\ config_' = Parse(config_, configFile, clock)
    /\ verboseLevel' = config_'.verboseLogLevel
    /\ ctorPc' = "setup"
    /\ UNCHANGED << onDemandEventProfilerConfig_, onDemandActivityProfilerConfig_,
                    flags, sync, sigs, frames, schedPc, timers, dmn, files, locals,
                    dtorPc, clock, delivered, factory, history, api >>

\* line 138: setupSignalHandler(config_.sigUsr2Enabled())
CtorSetupSignalHandler ==
    /\ ctorPc = "setup"
    /\ LET s == SetupSigaction(config_.sigUsr2Enabled, sigHandler, originalUsr2Handler)
       IN  /\ sigHandler' = s[1]
           /\ originalUsr2Handler' = SetupNormalize(config_.sigUsr2Enabled, s[2])
    /\ ctorPc' = "daemon"
    /\ UNCHANGED << slots, flags, sync, frames, schedPc, timers, dmn, files, locals,
                    dtorPc, clock, verboseLevel, delivered, factory, history, api >>

\* lines 139-141.  The condition of line 139 names the function
\* daemonConfigLoaderFactory, not its result, and is always true: line 140
\* calls the stored std::function unconditionally, and calling an empty one
\* throws std::bad_function_call out of the constructor.
CtorMakeDaemonLoader ==
    /\ ctorPc = "daemon"
    /\ IF factory = "none"
       THEN /\ ctorPc' = "failed"
            /\ UNCHANGED daemonConfigLoader_
       ELSE /\ ctorPc' = "start_thread"
            /\ daemonConfigLoader_' = (factory = "loader")
    /\ UNCHANGED << slots, flags, sync, sigs, frames, schedPc, timers, dmn,
                    configFile, onDemandFile, locals, dtorPc, clock, verboseLevel,
                    delivered, factory, history, api >>

\* lines 142-143: the scheduler thread is created; it initialises its locals
\* (225-231) and enters the loop.
CtorStartThread ==
    /\ ctorPc = "start_thread"
    /\ schedPc' = "lock"
    /\ now' = clock
    /\ next_config_load_time' = clock + kConfigUpdateIntervalSecs
    /\ next_on_demand_load_time' = clock + kOnDemandConfigUpdateIntervalSecs
    /\ next_log_level_reset_time' = clock
    /\ ctorPc' = "done"
    /\ UNCHANGED << slots, flags, sync, sigs, frames, dmn, files, locals, dtorPc,
                    clock, verboseLevel, delivered, factory, history, api >>

Constructor ==
    \/ CtorParse \/ CtorSetupSignalHandler \/ CtorMakeDaemonLoader \/ CtorStartThread

-----------------------------------------------------------------------------
\* LibkinetoApi::registerClient (32-41) and initClientIfRegistered (17-30),
\* called by the threads of Callers.  The members are plain fields: no lock
\* orders the calls of different threads.

loader == << slots, flags, sync, sigs, frames, schedPc, timers, dmn, files, locals,
             dtorPc, clock, verboseLevel, delivered, ctorPc, factory, history >>

\* line 33: client_ = client
RegSetClient(t) ==
    /\ apiPc[t] = "idle"
    /\ client_' = t
    /\ apiPc' = [apiPc EXCEPT ![t] = "reg_init"]
    /\ UNCHANGED << loader, clientRegisterThread_, activityProfiler_, initRuns >>

\* lines 34-37: if (client && activityProfiler_) client->init()
RegInitNow(t) ==
    /\ apiPc[t] = "reg_init"
    /\ initRuns' = IF activityProfiler_ THEN initRuns \cup { <<t, t>> } ELSE initRuns
    /\ apiPc' = [apiPc EXCEPT ![t] = "reg_thread"]
    /\ UNCHANGED << loader, client_, clientRegisterThread_, activityProfiler_ >>

\* line 40: clientRegisterThread_ = pthread_self()
RegSetThread(t) ==
    /\ apiPc[t] = "reg_thread"
    /\ clientRegisterThread_' = t
    /\ apiPc' = [apiPc EXCEPT ![t] = "idle"]
    /\ UNCHANGED << loader, client_, activityProfiler_, initRuns >>

\* line 18: if (client_)
InitCheckClient(t) ==
    /\ apiPc[t] = "idle"
    /\ client_ # "null"
    /\ apiPc' = [apiPc EXCEPT ![t] = "init_thread"]
    /\ UNCHANGED << loader, client_, clientRegisterThread_, activityProfiler_, initRuns >>

\* line 19: if (clientRegisterThread_ != pthread_self()), the error branch
\* returns
InitCheckThread(t) ==
    /\ apiPc[t] = "init_thread"
    /\ apiPc' = [apiPc EXCEPT ![t] =
                    IF clientRegisterThread_ # t THEN "idle" ELSE "init_call"]
    /\ UNCHANGED << loader, client_, clientRegisterThread_, activityProfiler_, initRuns >>

\* line 27: client_->init()
InitCall(t) ==
    /\ apiPc[t] = "init_call"
    /\ initRuns' = initRuns \cup { <<client_, t>> }
    /\ apiPc' = [apiPc EXCEPT ![t] = "idle"]
    /\ UNCHANGED << loader, client_, clientRegisterThread_, activityProfiler_ >>

registerClient(t) == RegSetClient(t) \/ RegInitNow(t) \/ RegSetThread(t)

initClientIfRegistered(t) == InitCheckClient(t) \/ InitCheckThread(t) \/ InitCall(t)

-----------------------------------------------------------------------------
\* The loop of updateConfigThread, observed at the instants I
SchedWaitStep(I) ==
    \/ SchedLock \/ SchedWait
    \/ SchedWakeNotified(I) \/ SchedWakeTimeout(I) \/ SchedWakeSpurious(I)
    \/ SchedReacquire \/ SchedUnlock \/ SchedReadClock

SchedReload == SchedUpdateBaseConfig \/ SchedSetupSigaction \/ SchedSetupNormalize

SchedPoll == SchedDaemonQuery \/ SchedDaemonAccept \/ SchedNoOnDemand

SchedulerLoop(I) ==
    \/ SchedWaitStep(I)
    \/ SchedSkipBaseConfig \/ SchedReload
    \/ SchedConfigureFromSignal \/ SchedPoll
    \/ SchedVerbose

\* The loop before the first base-reload deadline
SchedulerEarly ==
    \/ SchedWaitStep(EarlyInstants)
    \/ SchedSkipBaseConfig
    \/ SchedConfigureFromSignal \/ SchedPoll
    \/ SchedVerbose

Scheduler == SchedulerLoop(Instants) \/ SchedStop

Handler(t) ==
    \/ HandlerSetFlag(t) \/ HandlerLock(t) \/ HandlerNotify(t)
    \/ HandlerCheckOriginal(t) \/ HandlerSwap(t)
    \/ HandlerRaiseForeign(t) \/ HandlerRaiseBridge(t) \/ HandlerRaiseDefault(t)
    \/ HandlerRestore(t)

Deliver(t) == DeliverBridge(t) \/ DeliverForeign(t) \/ DeliverDefault(t)

Destructor == DtorSetStop \/ DtorLock \/ DtorNotify \/ DtorJoin

Next ==
    \/ Constructor
    \/ Scheduler
    \/ \E t \in Threads : Handler(t)
    \/ \E t \in Threads : Deliver(t)
    \/ Destructor
    \/ \E b \in BOOLEAN : SetActivityProfilerBusy(b)
    \/ \E text \in BaseTexts : EditConfigFile(text)
    \/ \E text \in OnDemandTexts : EditOnDemandFile(text)
    \/ \E t \in Callers : registerClient(t)
    \/ \E t \in Callers : initClientIfRegistered(t)

Spec == Init /\ [][Next]_vars

-----------------------------------------------------------------------------
\* The wait/notify protocol during the first base-reload interval: no
\* foreign handler, files that do not change, no daemon client.
InitSync == InitWith({EmptyText}, {EmptyText}, {"DFL"}, {FALSE})

\* handle_signal when no original handler is saved
HandlerNoChain(t) ==
    \/ HandlerSetFlag(t) \/ HandlerLock(t) \/ HandlerNotify(t)
    \/ HandlerCheckOriginal(t)

NextSync ==
    \/ SchedulerEarly
    \/ SchedStop
    \/ \E t \in Threads : HandlerNoChain(t)
    \/ \E t \in Threads : DeliverBridge(t)
    \/ Destructor

SpecSync == InitSync /\ [][NextSync]_vars

\* Every thread that can take a step eventually takes one, and a wait_for
\* interval is finite; when signals are sent and when the destructor starts
\* is up to the host.
FairSync ==
    /\ SpecSync
    /\ WF_vars(SchedulerEarly \/ SchedStop)
    /\ \A t \in Threads : WF_vars(HandlerNoChain(t))
    /\ WF_vars(DtorLock \/ DtorNotify \/ DtorJoin)

-----------------------------------------------------------------------------
\* The signal bridge and its re-installation on base reloads: the host may
\* have registered a foreign handler before construction, and the operator
\* may switch SIGUSR2_ENABLED in the base file.
InitChain == InitWith({EmptyText, SigUsr2OffText}, {EmptyText}, {"DFL", "F"}, {FALSE})

NextChain ==
    \/ SchedulerLoop(Instants)
    \/ \E t \in Threads : Handler(t)
    \/ \E t \in Threads : Deliver(t)
    \/ \E text \in {EmptyText, SigUsr2OffText} : EditConfigFile(text)

SpecChain == InitChain /\ [][NextChain]_vars

-----------------------------------------------------------------------------
\* Base reloads on their own, up to the second reload deadline: the operator
\* rewrites the base file, possibly with malformed text; no signal is sent.
InitReload ==
    InitWith({EmptyText, VerboseOffText}, {EmptyText}, {"DFL", "F"}, {FALSE})

NextReload ==
    \/ SchedLock \/ SchedWait
    \/ SchedWakeTimeout(ReloadInstants) \/ SchedWakeSpurious(ReloadInstants)
    \/ SchedReacquire \/ SchedUnlock \/ SchedReadClock
    \/ SchedSkipBaseConfig \/ SchedReload
    \/ SchedPoll
    \/ SchedVerbose
    \/ \E text \in {EmptyText, VerboseOffText, MalformedText} : EditConfigFile(text)

SpecReload == InitReload /\ [][NextReload]_vars

-----------------------------------------------------------------------------
\* On-demand arbitration during the first base-reload interval: signals are
\* handled on the host thread, the activity profiler toggles its busy flag
\* and a daemon client may be present.
InitConfig ==
    InitWith({VerboseOffText}, {VerboseEventsText}, {"DFL"}, BOOLEAN)

NextConfig ==
    \/ SchedulerEarly
    \/ HandlerNoChain("main")
    \/ DeliverBridge("main")
    \/ \E b \in BOOLEAN : SetActivityProfilerBusy(b)

SpecConfig == InitConfig /\ [][NextConfig]_vars

-----------------------------------------------------------------------------
\* Construction followed by the first base-reload interval and shutdown: the
\* host may or may not have registered a daemon-loader factory.
NextCtor ==
    \/ Constructor
    \/ SchedWaitStep(EarlyInstants)
    \/ SchedSkipBaseConfig
    \/ SchedPoll
    \/ SchedVerbose
    \/ SchedStop
    \/ Destructor

SpecCtor == InitCtor /\ [][NextCtor]_vars

-----------------------------------------------------------------------------
\* The LibkinetoApi on its own: two host threads register their clients and
\* call initClientIfRegistered; the configuration loader is left alone.
InitApi ==
    /\ InitLoader({EmptyText}, {EmptyText}, {"DFL"}, {FALSE})
    /\ InitApiWith(BOOLEAN)

NextApi ==
    \/ \E t \in Callers : registerClient(t)
    \/ \E t \in Callers : initClientIfRegistered(t)

SpecApi == InitApi /\ [][NextApi]_vars

-----------------------------------------------------------------------------
\* C1: a pending-signal flag set while the scheduler has not been stopped is
\* eventually read-and-cleared by a scheduler iteration (which then runs the
\* signal-triggered configuration), unless the scheduler is stopped first.
C1_NoSignalLost ==
    (onDemandSignal_ /\ ~stopFlag_) ~> (~onDemandSignal_ \/ stopFlag_)

\* C2: once the destructor has set stop and issued its notification, the
\* scheduler is never parked in wait_for with nothing but the timeout left
\* to wake it.
C2_ShutdownNotMissed ==
    ~( /\ stopFlag_
       /\ dtorPc = "join"
       /\ schedPc = "waiting"
       /\ ~cvNotified )

\* C4: no handler frame ever waits for a mutex that is owned by the thread
\* the frame is running on.
C4_HandlerNeverBlocks ==
    \A t \in Threads :
        ~( /\ hstack[t] # << >>
           /\ Top(t).pc = "lock"
           /\ updateThreadMutex_ = t )

\* C3: a foreign handler saved as the original handler stays saved for as
\* long as SIGUSR2 handling stays enabled, whatever deliveries and base
\* reloads take place (so every delivery keeps chaining to it).
C3_OriginalHandlerKept ==
    [][ ( /\ originalUsr2Handler = "F"
          /\ config_.sigUsr2Enabled
          /\ config_'.sigUsr2Enabled )
        => originalUsr2Handler' = "F" ]_vars

\* C5: no step puts into the base, onDemandEvent or onDemandActivity slot a
\* snapshot that is not the result of a successful parse: when a parse fails
\* the slot keeps the snapshot it held.
C5_FailedParseKeepsSlot ==
    [][ /\ config_' # config_ => config_'.parsed = "ok"
        /\ onDemandEventProfilerConfig_' # onDemandEventProfilerConfig_
              => onDemandEventProfilerConfig_'.parsed = "ok"
        /\ onDemandActivityProfilerConfig_' # onDemandActivityProfilerConfig_
              => onDemandActivityProfilerConfig_'.parsed = "ok" ]_vars

\* C6: the signal path writes the onDemandEvent slot only when the iteration's
\* time is strictly past the end time of the snapshot in the slot; a request
\* it dropped is not applied afterwards: an iteration that polls the daemon
\* writes the slot only with an event request the daemon answered with.
C6_SignalEventRequestDropped ==
    [][ /\ ( /\ schedPc = "ondemand"
             /\ onDemandEventProfilerConfig_' # onDemandEventProfilerConfig_ )
           => now > eventProfilerOnDemandEndTime(onDemandEventProfilerConfig_)
        /\ ( /\ schedPc = "daemon_accept"
             /\ onDemandEventProfilerConfig_' # onDemandEventProfilerConfig_ )
           => HasKey(daemonResp, "EVENTS_DURATION_SECS") ]_vars

\* C7: whatever the source, the onDemandEvent slot is written only in an
\* iteration whose time is past the end time of the snapshot it holds.
C7_ActiveWindowPreserved ==
    [][ onDemandEventProfilerConfig_' # onDemandEventProfilerConfig_
        => now > eventProfilerOnDemandEndTime(onDemandEventProfilerConfig_) ]_vars

\* C8: a signal processed while the activity profiler is busy leaves the
\* onDemandActivity slot unchanged and is not retried (a daemon poll writes
\* the slot only with an activity request the daemon answered with); a signal
\* processed while it is not busy puts its snapshot into the slot.
C8_BusySignalRequestDropped ==
    [][ /\ ( /\ schedPc = "ondemand" /\ onDemandSignal_ /\ activityProfilerBusy_ )
           => UNCHANGED onDemandActivityProfilerConfig_
        /\ ( /\ schedPc = "daemon_accept"
             /\ onDemandActivityProfilerConfig_' # onDemandActivityProfilerConfig_ )
           => HasKey(daemonResp, "ACTIVITIES_DURATION_SECS")
        /\ ( /\ schedPc = "ondemand" /\ schedPc' = "verbose"
             /\ onDemandSignal_ /\ ~activityProfilerBusy_ )
           => onDemandActivityProfilerConfig_' = onDemandConfig' ]_vars

\* C9: configureFromDaemon never writes the onDemandActivity slot at a moment
\* when the busy flag is true.
C9_DaemonIgnoredWhileBusy ==
    [][ ( /\ schedPc = "daemon_accept"
          /\ onDemandActivityProfilerConfig_' # onDemandActivityProfilerConfig_ )
        => ~activityProfilerBusy_ ]_vars

\* C10: an iteration that processed no signal and got nothing from the daemon
\* does not re-arm the verbose override timer, and resets the verbose level
\* to the base snapshot's when its time is past the armed expiry.
C10_VerboseResetAfterOverride ==
    [][ ( /\ schedPc = "verbose" /\ schedPc' = "lock"
          /\ odSource # "signal" /\ daemonResp = EmptyText )
        => /\ UNCHANGED next_log_level_reset_time
           /\ now > next_log_level_reset_time
                 => verboseLevel' = config_.verboseLogLevel ]_vars

\* C11: a base reload replaces the base slot only when the text it read
\* differs from the held snapshot's source(), and then the timestamp advances;
\* a reload that reads the same text as the reload before it leaves the slot
\* and its timestamp as they are, so that hasNewConfig is true once per
\* content change seen at a poll and false otherwise.
C11_BaseReplacedOncePerChange ==
    [][ /\ config_' # config_
           => /\ configFile # config_.source
              /\ config_'.timestamp > config_.timestamp
        /\ ( /\ schedPc = "base" /\ schedPc' = "setup_sigaction"
             /\ configFile = config_str )
           => config_' = config_ ]_vars

\* C12: a daemon-poll iteration whose response text is empty (or that has no
\* daemon client) leaves the onDemandEvent and onDemandActivity slots as they
\* are, whatever earlier iterations processed.
C12_EmptyDaemonResponseNoUpdate ==
    [][ ( /\ schedPc = "daemon_accept" /\ schedPc' = "verbose"
          /\ daemonResp = EmptyText )
        => UNCHANGED << onDemandEventProfilerConfig_,
                        onDemandActivityProfilerConfig_ >> ]_vars

\* C13: when no daemon-loader factory is registered the constructor does not
\* fail: it completes with no daemon client and with the scheduler thread
\* started.
C13_NoFactoryConstructs ==
    factory = "none" =>
        /\ ctorPc # "failed"
        /\ ctorPc = "done" => (~daemonConfigLoader_ /\ schedPc # "unstarted")

\* C14: the saved original handler is never handle_signal itself, and no
\* handler frame is about to raise SIGUSR2 with handle_signal installed (a
\* delivery never chains into the bridge recursively).
C14_OriginalNeverBridge ==
    /\ originalUsr2Handler # "bridge"
    /\ \A t \in Threads : ~(InHandler(t, "raise") /\ sigHandler = "bridge")

\* Number of handler frames that have not yet executed line 159
FramesBeforeSetFlag(t) ==
    Cardinality({ i \in 1..Len(hstack[t]) : hstack[t][i].pc = "set_flag" })

\* C15: the signal-triggered configurations performed so far, plus the one
\* still owed when the flag is set, never exceed the number of times a
\* handler has set the flag; every signal-triggered configuration finds the
\* flag set and clears it, so settings that pile up between two checks are
\* answered by one configuration.
C15_FlagConsumedOnce ==
    /\ [] ( signalConfigs + (IF onDemandSignal_ THEN 1 ELSE 0)
               <= delivered - FramesBeforeSetFlag("sched") - FramesBeforeSetFlag("main") )
    /\ [][ signalConfigs' # signalConfigs
             => /\ signalConfigs' = signalConfigs + 1
                /\ onDemandSignal_ /\ ~onDemandSignal_' ]_vars

\* two deliveries were answered by a single configuration
C15_Coalesced ==
    /\ delivered = 2 /\ signalConfigs = 1
    /\ ~onDemandSignal_
    /\ \A t \in Threads : hstack[t] = << >>
    /\ schedPc = "waiting"

\* C16: an iteration that finds the pending flag set runs the signal-triggered
\* configuration, does not query the daemon and leaves the poll deadline
\* alone; the daemon is queried only when the flag was clear and the time is
\* past the poll deadline, and the deadline then becomes now + the poll
\* interval; nothing else moves the deadline.
C16_SignalBeforeDaemon ==
    [][ /\ ( /\ schedPc = "ondemand" /\ schedPc' # "ondemand" /\ onDemandSignal_ )
           => /\ schedPc' = "verbose" /\ odSource' = "signal"
              /\ UNCHANGED << next_on_demand_load_time, dmn >>
        /\ ( /\ schedPc = "ondemand" /\ schedPc' = "daemon_accept" )
           => /\ ~onDemandSignal_
              /\ now > next_on_demand_load_time
        /\ ( /\ schedPc = "daemon_accept" /\ schedPc' # "daemon_accept" )
           => next_on_demand_load_time' = now + kOnDemandConfigUpdateIntervalSecs
        /\ next_on_demand_load_time' # next_on_demand_load_time
           => schedPc = "daemon_accept" ]_vars

\* a signal iteration has run although a daemon poll was due
C16_SignalIterationPollDue ==
    /\ schedPc = "verbose" /\ odSource = "signal"
    /\ daemonConfigLoader_
    /\ now > next_on_demand_load_time

\* C17: once stop is set the scheduler eventually exits and the destructor's
\* join returns; the step by which the scheduler observes stop and exits
\* changes no slot, no deadline and no on-demand state.
C17_ShutdownCompletes ==
    /\ stopFlag_ ~> (schedPc = "done" /\ dtorPc = "done")
    /\ [][ (schedPc # "done" /\ schedPc' = "done")
             => /\ schedPc = "check_stop" /\ stopFlag_
                /\ UNCHANGED << slots, timers, dmn, locals, sigs, verboseLevel >> ]_vars

\* C18: the base file is re-read only in an iteration whose time is strictly
\* past the base-reload deadline, that is more than the reload interval after
\* the reload before it; a reload, and nothing else, moves the deadline, to
\* now + the reload interval.
C18_ReloadOnlyPastDeadline ==
    [][ /\ ( \/ config_' # config_
             \/ config_str' # config_str
             \/ (schedPc = "base" /\ schedPc' = "setup_sigaction") )
           => /\ now > next_config_load_time
              /\ now - (next_config_load_time - kConfigUpdateIntervalSecs)
                    > kConfigUpdateIntervalSecs
        /\ ( /\ schedPc \in {"setup_sigaction", "setup_normalize"}
             /\ schedPc' = "ondemand" )
           => next_config_load_time' = now + kConfigUpdateIntervalSecs
        /\ next_config_load_time' # next_config_load_time
           => /\ schedPc \in {"setup_sigaction", "setup_normalize"}
              /\ schedPc' = "ondemand" ]_vars

\* a second reload has taken place, the iteration at the deadline itself
\* having reloaded nothing
C18_SecondReloadDone ==
    /\ schedPc = "ondemand"
    /\ now = 3 + 2 * kConfigUpdateIntervalSecs
    /\ next_config_load_time = now + kConfigUpdateIntervalSecs

\* C19: whenever the install decision applied last was
\* setupSignalHandler(false) - the base snapshot has SIGUSR2 handling off and
\* the scheduler is not inside setupSignalHandler - handle_signal is not the
\* process's SIGUSR2 handler.
C19_DisabledMeansNotInstalled ==
    ( /\ ~config_.sigUsr2Enabled
      /\ schedPc \notin {"setup_sigaction", "setup_normalize"} )
    => sigHandler # "bridge"

\* C20: every client->init() runs on the thread that called registerClient
\* for that client.
C20_InitOnRegisteringThread ==
    \A r \in initRuns : r[2] = r[1]

=============================================================================
